---- MODULE Spec2Model ----
(***************************************************************************)
(* Model of hass_sgcc/data_fetcher.py: the slider-captcha login of         *)
(* DataFetcher._login with its bounded retry loop, the pointer trajectory  *)
(* of DataFetcher._sliding_track, the login guard and data loop of         *)
(* DataFetcher.fetch, and the row-wise scan of get_transparency_location.  *)
(*                                                                         *)
(* Two specifications share the module:                                    *)
(*   Spec        one run of fetch() (browser launch, _login, data loop);   *)
(*   SpecLocator get_transparency_location on every small alpha buffer.    *)
(*                                                                         *)
(* The browser page, the distance model and the sensor updater are         *)
(* collaborators: every page.* call either returns or raises, the URL the  *)
(* page reports and the values the collaborators return are inputs.        *)
(* time.sleep and logging never raise; browser.close() is taken to return. *)
(* The decorator ErrorWatcher.watch on _login is defined outside this file;*)
(* whether it re-raises or swallows an exception of the body, fetch ends   *)
(* in the same except branch (a swallowed exception yields a falsy result, *)
(* which fetch turns into an exception itself), so the model records an    *)
(* exception of the body as the login result "raised".                     *)
(***************************************************************************)
EXTENDS Integers, Sequences, FiniteSets, TLC

\* ------------------------------------------------------------------ bounds
\* Largest RETRY_TIMES_LIMIT explored (the environment may set any integer).
MaxRetry == 3
\* Largest number of user ids the dropdown lists.
MaxUsers == 2
\* Largest buffer width and height explored by the locator.
MaxWidth == 3
MaxHeight == 3

\* ------------------------------------------------------------------ state
VARIABLES
    \* --- fetch / _login
    pc,              \* position of the run inside fetch / _login / _sliding_track
    RETRY_TIMES_LIMIT, \* self.RETRY_TIMES_LIMIT
    phone_code,      \* DEBUG_MODE == "true": fetch calls _login(page, phone_code=True)
    retry_times,     \* loop variable of the for loop of _login
    im_info,         \* the string page.evaluate returned for the canvas
    distance,        \* the raw estimate of self.onnx.get_distance
    track_distance,  \* the distance argument of the current _sliding_track call
    box,             \* slider.bounding_box(): None or <<x, y, width, height>>
    mouse,           \* pointer events issued by the current _sliding_track call
    url_is_login,    \* page.url == LOGIN_URL, as the page would report it now
    verified_left,   \* _login has read page.url and found it different from LOGIN_URL
    loginResult,     \* "none" | "True" | "False" | "raised"
    error,           \* kind of the exception that left _login, or "none"
    trace,           \* steps _login has taken, in order (history)
    browserOpen,     \* the browser is launched and browser.close() was not called
    fetchOutcome,    \* "running" | "returned" | "propagated"
    user_id_list,    \* number of ids _get_user_ids returned, -1 for None
    userid_index,    \* loop variable of the per-user loop of fetch
    updates,         \* calls of updator.update_one_userid
    \* --- get_transparency_location
    lpc,             \* position inside get_transparency_location
    image,           \* [height, width, channel, alpha]: the buffer
    y,               \* row the scan is at
    first_location,
    last_location,
    first_transparency,
    last_transparency,
    location,        \* the returned tuple <<left, upper, right, lower>>, None before
    raised           \* the exception that left get_transparency_location, or "none"

loginVars == <<pc, RETRY_TIMES_LIMIT, phone_code, retry_times, im_info, distance,
               track_distance, box, mouse, url_is_login, verified_left, loginResult, error, trace,
               browserOpen, fetchOutcome, user_id_list, userid_index, updates>>
locVars == <<lpc, image, y, first_location, last_location, first_transparency,
             last_transparency, location, raised>>
vars == <<loginVars, locVars>>

\* Groups of variables an action leaves alone.
config == <<RETRY_TIMES_LIMIT, phone_code>>
captcha == <<im_info, distance, track_distance, box, mouse>>
fetchVars == <<browserOpen, fetchOutcome, user_id_list, userid_index, updates>>

\* ----------------------------------------------------------- input domains
\* Raw estimates of the distance model (integral values; 25 and 75 land on .5,
\* 10 rounds up, 120 rounds down).
Distances == {0, 10, 25, 75, 120}
\* random.uniform(-2, 4), sampled at integral points.
Jitters == {-2, 0, 4}
\* Bounding boxes of the slider handle (even sizes: the centre is integral).
\* Each is <<x, y, width, height>>; None is the empty tuple.
Boxes == {<<10, 20, 4, 2>>, <<0, 0, 2, 2>>}
None == <<>>
\* What page.evaluate may hand back: a data URL of a PNG, a data URL whose
\* payload is not base64 of an image, a string without any comma.
Snapshots == {"data:image/png;base64,PNG", "data:image/png;base64,garbage", "nocomma"}

\* ---------------------------------------------------------------- helpers
\* Calibrate with the compensation factor left out.
CalibrateOmitted(d) == d

\* round(distance * 1.06): Python 3 rounds halves to the even integer.
Calibrate(d) ==
    LET n == d * 106
        q == n \div 100
        r == n % 100
    IN  IF r > 50 THEN q + 1
        ELSE IF r < 50 THEN q
        ELSE IF q % 2 = 0 THEN q ELSE q + 1

\* im_info.split(",")[1], then base64_to_PLI: "image", or the exception raised.
base64_to_PLI(s) ==
    CASE s = "data:image/png;base64,PNG" -> "image"
      [] s = "data:image/png;base64,garbage" -> "DecodeError"
      [] OTHER -> "IndexError"

Count(seq, e) == Cardinality({i \in DOMAIN seq : seq[i] = e})

\* An exception leaves _login: nothing in _login catches it.
LoginRaises(kind) ==
    /\ loginResult' = "raised"
    /\ error' = kind
    /\ pc' = "guard"

\* ------------------------------------------------------------------- Init
LocIdle ==
    /\ lpc = "idle"
    /\ image = [height |-> 1, width |-> 1, channel |-> 4, alpha |-> <<<<0>>>>]
    /\ y = 0
    /\ first_location = None
    /\ last_location = None
    /\ first_transparency = <<>>
    /\ last_transparency = <<>>
    /\ location = None
    /\ raised = "none"

LoginStart(pc0) ==
    /\ pc = pc0
    /\ retry_times = 0
    /\ im_info = "none"
    /\ distance = 0
    /\ track_distance = 0
    /\ box = None
    /\ mouse = <<>>
    /\ url_is_login = TRUE
    /\ verified_left = FALSE
    /\ loginResult = "none"
    /\ error = "none"
    /\ trace = <<>>
    /\ browserOpen = FALSE
    /\ fetchOutcome = "running"
    /\ user_id_list = -1
    /\ userid_index = 0
    /\ updates = 0

\* DataFetcher.__init__ reads the configuration; fetch has not started.
Init ==
    /\ RETRY_TIMES_LIMIT \in 0..MaxRetry
    /\ phone_code \in BOOLEAN
    /\ LoginStart("fetch")
    /\ LocIdle

\* ------------------------------------------------------------------ fetch
\* fetch, lines 281-295: launch the browser, open a page.
FetchLaunch ==
    /\ pc = "fetch"
    /\ browserOpen' = TRUE
    /\ pc' = "login"
    /\ UNCHANGED <<config, captcha, retry_times, url_is_login, verified_left,
                   loginResult, error, trace, fetchOutcome, user_id_list,
                   userid_index, updates>>
    /\ UNCHANGED locVars

\* ----------------------------------------------------------------- _login
\* _login, lines 191-208: open LOGIN_URL (a failure is logged and swallowed),
\* switch to the account tab, tick the agreement.
LoginOpen ==
    /\ pc = "login"
    /\ pc' = IF phone_code THEN "phone" ELSE "credentials"
    /\ UNCHANGED <<config, captcha, retry_times, url_is_login, verified_left,
                   loginResult, error, trace, fetchVars>>
    /\ UNCHANGED locVars

\* _login, lines 199-206: one of the clicks outside the try raises.
LoginOpenRaise ==
    /\ pc = "login"
    /\ LoginRaises("NetworkError")
    /\ UNCHANGED <<config, captcha, retry_times, url_is_login, verified_left,
                   trace, fetchVars>>
    /\ UNCHANGED locVars

\* _login, lines 209-227: the phone-code branch fills the number and the code,
\* clicks the login button, sleeps and returns True; page.url is never read.
PhoneLogin ==
    /\ pc = "phone"
    /\ url_is_login' \in BOOLEAN
    /\ loginResult' = "True"
    /\ pc' = "guard"
    /\ UNCHANGED <<config, captcha, retry_times, verified_left, error, trace, fetchVars>>
    /\ UNCHANGED locVars

\* _login, lines 210-223: a click or fill of the phone-code branch raises.
PhoneLoginRaise ==
    /\ pc = "phone"
    /\ LoginRaises("NetworkError")
    /\ UNCHANGED <<config, captcha, retry_times, url_is_login, verified_left,
                   trace, fetchVars>>
    /\ UNCHANGED locVars

\* _login, lines 230-239: fill user name and password, click the login button.
FillCredentials ==
    /\ pc = "credentials"
    /\ retry_times' = 0
    /\ pc' = "loop"
    /\ UNCHANGED <<config, captcha, url_is_login, verified_left, loginResult, error,
                   trace, fetchVars>>
    /\ UNCHANGED locVars

\* _login, lines 230-237: a credential field cannot be located or filled;
\* the statement is outside the for loop and outside any try.
FillCredentialsRaise ==
    /\ pc = "credentials"
    /\ trace' = Append(trace, "credentials_failed")
    /\ LoginRaises("NetworkError")
    /\ UNCHANGED <<config, captcha, retry_times, url_is_login, verified_left,
                   fetchVars>>
    /\ UNCHANGED locVars

\* LoopNext with the range one too long.
LoopNextOneMore ==
    /\ pc = "loop"
    /\ retry_times <= RETRY_TIMES_LIMIT
    /\ retry_times' = retry_times + 1
    /\ pc' = "tab"
    /\ UNCHANGED <<config, captcha, url_is_login, verified_left, loginResult, error,
                   trace, fetchVars>>
    /\ UNCHANGED locVars

\* _login, line 241: for retry_times in range(1, RETRY_TIMES_LIMIT + 1), next value.
LoopNext ==
    /\ pc = "loop"
    /\ retry_times < RETRY_TIMES_LIMIT
    /\ retry_times' = retry_times + 1
    /\ pc' = "tab"
    /\ UNCHANGED <<config, captcha, url_is_login, verified_left, loginResult, error,
                   trace, fetchVars>>
    /\ UNCHANGED locVars

\* LoopExhausted ending in the raise of line 275 instead of the return of 273.
LoopExhaustedRaises ==
    /\ pc = "loop"
    /\ retry_times >= RETRY_TIMES_LIMIT
    /\ LoginRaises("LoginFailed")
    /\ UNCHANGED <<config, captcha, retry_times, url_is_login, verified_left,
                   trace, fetchVars>>
    /\ UNCHANGED locVars

\* _login, lines 270-273: the range is exhausted; log and return False.
LoopExhausted ==
    /\ pc = "loop"
    /\ retry_times >= RETRY_TIMES_LIMIT
    /\ loginResult' = "False"
    /\ pc' = "guard"
    /\ UNCHANGED <<config, captcha, retry_times, url_is_login, verified_left, error,
                   trace, fetchVars>>
    /\ UNCHANGED locVars

\* _login, line 242: click the account tab.
ClickTab ==
    /\ pc = "tab"
    /\ trace' = Append(trace, "tab")
    /\ pc' = "snapshot"
    /\ UNCHANGED <<config, captcha, retry_times, url_is_login, verified_left,
                   loginResult, error, fetchVars>>
    /\ UNCHANGED locVars

\* _login, lines 242-247: the tab click or page.evaluate raises.
SnapshotRaise ==
    /\ pc \in {"tab", "snapshot"}
    /\ LoginRaises("NetworkError")
    /\ UNCHANGED <<config, captcha, retry_times, url_is_login, verified_left,
                   trace, fetchVars>>
    /\ UNCHANGED locVars

\* _login, line 247: page.evaluate returns the canvas as a string.
Snapshot ==
    /\ pc = "snapshot"
    /\ im_info' \in Snapshots
    /\ trace' = Append(trace, "snapshot")
    /\ pc' = "decode"
    /\ UNCHANGED <<config, distance, track_distance, box, mouse, retry_times, url_is_login,
                   verified_left, loginResult, error, fetchVars>>
    /\ UNCHANGED locVars

\* _login, lines 248-250: split off the payload and decode it.
Decode ==
    /\ pc = "decode"
    /\ base64_to_PLI(im_info) = "image"
    /\ trace' = Append(trace, "decode")
    /\ pc' = "estimate"
    /\ UNCHANGED <<config, captcha, retry_times, url_is_login, verified_left,
                   loginResult, error, fetchVars>>
    /\ UNCHANGED locVars

\* _login, lines 248-249: the split or the decoder raises inside the loop body,
\* which has no try around it.
DecodeRaise ==
    /\ pc = "decode"
    /\ base64_to_PLI(im_info) # "image"
    /\ trace' = Append(trace, "decode_failed")
    /\ LoginRaises(base64_to_PLI(im_info))
    /\ UNCHANGED <<config, captcha, retry_times, url_is_login, verified_left,
                   fetchVars>>
    /\ UNCHANGED locVars

\* _login, lines 251-252: the distance model returns its estimate.
Estimate ==
    /\ pc = "estimate"
    /\ distance' \in Distances
    /\ trace' = Append(trace, "estimate")
    /\ pc' = "slide"
    /\ UNCHANGED <<config, im_info, track_distance, box, mouse, retry_times, url_is_login,
                   verified_left, loginResult, error, fetchVars>>
    /\ UNCHANGED locVars

\* _login, line 251: the distance model raises.
EstimateRaise ==
    /\ pc = "estimate"
    /\ trace' = Append(trace, "estimate_failed")
    /\ LoginRaises("InferenceError")
    /\ UNCHANGED <<config, captcha, retry_times, url_is_login, verified_left,
                   fetchVars>>
    /\ UNCHANGED locVars

\* --------------------------------------------------------- _sliding_track
\* Centre of the slider handle, lines 114-115.
start_x(b) == b[1] + b[3] \div 2
start_y(b) == b[2] + b[4] \div 2

\* SlideNoBox with the press and release outside the if of line 113.
SlideNoBoxPresses ==
    /\ pc = "slide"
    /\ track_distance' = Calibrate(distance)
    /\ box' = None
    /\ mouse' = <<<<"down">>, <<"up">>>>
    /\ trace' = Append(trace, "drag")
    /\ pc' = "verify"
    /\ UNCHANGED <<config, im_info, distance, retry_times, url_is_login,
                   verified_left, loginResult, error, fetchVars>>
    /\ UNCHANGED locVars

\* _login, line 254, calls _sliding_track with round(distance * 1.06);
\* _sliding_track, lines 111-113: no bounding box, the body of the if is skipped
\* and the call returns without a pointer event.
SlideNoBox ==
    /\ pc = "slide"
    /\ track_distance' = Calibrate(distance)
    /\ box' = None
    /\ mouse' = <<>>
    /\ trace' = Append(trace, "drag")
    /\ pc' = "verify"
    /\ UNCHANGED <<config, im_info, distance, retry_times, url_is_login,
                   verified_left, loginResult, error, fetchVars>>
    /\ UNCHANGED locVars

\* _login, line 254, calls _sliding_track with round(distance * 1.06);
\* _sliding_track, lines 111-113: the locator reports a bounding box.
SlideBox ==
    /\ pc = "slide"
    /\ track_distance' = Calibrate(distance)
    /\ box' \in Boxes
    /\ mouse' = <<>>
    /\ pc' = "mouse_start"
    /\ UNCHANGED <<config, im_info, distance, retry_times, url_is_login,
                   verified_left, loginResult, error, trace, fetchVars>>
    /\ UNCHANGED locVars

\* _sliding_track, lines 114-117: page.mouse.move(start_x, start_y).
MouseMoveStart ==
    /\ pc = "mouse_start"
    /\ mouse' = Append(mouse, <<"move", start_x(box), start_y(box)>>)
    /\ pc' = "mouse_down"
    /\ UNCHANGED <<config, im_info, distance, track_distance, box, retry_times, url_is_login,
                   verified_left, loginResult, error, trace, fetchVars>>
    /\ UNCHANGED locVars

\* _sliding_track, line 118: page.mouse.down().
MouseDown ==
    /\ pc = "mouse_down"
    /\ mouse' = Append(mouse, <<"down">>)
    /\ pc' = "mouse_target"
    /\ UNCHANGED <<config, im_info, distance, track_distance, box, retry_times, url_is_login,
                   verified_left, loginResult, error, trace, fetchVars>>
    /\ UNCHANGED locVars

\* MouseMoveTarget without the start coordinate added to the distance.
MouseMoveTargetRelative ==
    /\ pc = "mouse_target"
    /\ \E yoffset_random \in Jitters :
          mouse' = Append(mouse, <<"move", track_distance,
                                   start_y(box) + yoffset_random>>)
    /\ pc' = "mouse_up"
    /\ UNCHANGED <<config, im_info, distance, track_distance, box, retry_times, url_is_login,
                   verified_left, loginResult, error, trace, fetchVars>>
    /\ UNCHANGED locVars

\* _sliding_track, lines 120-125: one move to the target, start plus the
\* distance argument (round(distance * 1.06) of line 254).
MouseMoveTarget ==
    /\ pc = "mouse_target"
    /\ \E yoffset_random \in Jitters :
          mouse' = Append(mouse, <<"move", start_x(box) + track_distance,
                                   start_y(box) + yoffset_random>>)
    /\ pc' = "mouse_up"
    /\ UNCHANGED <<config, im_info, distance, track_distance, box, retry_times, url_is_login,
                   verified_left, loginResult, error, trace, fetchVars>>
    /\ UNCHANGED locVars

\* _sliding_track, line 127: page.mouse.up(), and the call returns.
MouseUp ==
    /\ pc = "mouse_up"
    /\ mouse' = Append(mouse, <<"up">>)
    /\ trace' = Append(trace, "drag")
    /\ pc' = "verify"
    /\ UNCHANGED <<config, im_info, distance, track_distance, box, retry_times, url_is_login,
                   verified_left, loginResult, error, fetchVars>>
    /\ UNCHANGED locVars

\* _sliding_track, lines 112-127: bounding_box or a pointer call raises; neither
\* _sliding_track nor the loop body of _login catches it.
SlideRaise ==
    /\ pc \in {"slide", "mouse_start", "mouse_down", "mouse_target", "mouse_up"}
    /\ LoginRaises("NetworkError")
    /\ UNCHANGED <<config, captcha, retry_times, url_is_login, verified_left,
                   trace, fetchVars>>
    /\ UNCHANGED locVars

\* ------------------------------------------------- _login, verification
\* VerifyLeft going on with the loop instead of returning.
VerifyLeftContinues ==
    /\ pc = "verify"
    /\ url_is_login' = FALSE
    /\ verified_left' = TRUE
    /\ trace' = trace \o <<"wait", "verify_ok">>
    /\ pc' = "loop"
    /\ UNCHANGED <<config, captcha, retry_times, loginResult, error, fetchVars>>
    /\ UNCHANGED locVars

\* _login, lines 255-256 and 268-269: wait, read page.url; it differs from
\* LOGIN_URL, return True.
VerifyLeft ==
    /\ pc = "verify"
    /\ url_is_login' = FALSE
    /\ verified_left' = TRUE
    /\ trace' = trace \o <<"wait", "verify_ok">>
    /\ loginResult' = "True"
    /\ pc' = "guard"
    /\ UNCHANGED <<config, captcha, retry_times, error, fetchVars>>
    /\ UNCHANGED locVars

\* _login, lines 255-260: wait, read page.url; it still is LOGIN_URL.
VerifyStillLogin ==
    /\ pc = "verify"
    /\ url_is_login' = TRUE
    /\ trace' = trace \o <<"wait", "verify_fail">>
    /\ pc' = "retrigger"
    /\ UNCHANGED <<config, captcha, retry_times, verified_left, loginResult, error,
                   fetchVars>>
    /\ UNCHANGED locVars

\* _login, lines 261-263: click the login button again, wait, continue.
Retrigger ==
    /\ pc = "retrigger"
    /\ trace' = trace \o <<"retrigger", "wait">>
    /\ pc' = "loop"
    /\ UNCHANGED <<config, captcha, retry_times, url_is_login, verified_left,
                   loginResult, error, fetchVars>>
    /\ UNCHANGED locVars

\* _login, lines 261 and 264-267: the click raises; the except clause logs and
\* control falls to the end of the loop body, without the wait of line 262.
RetriggerRaise ==
    /\ pc = "retrigger"
    /\ trace' = Append(trace, "retrigger_failed")
    /\ pc' = "loop"
    /\ UNCHANGED <<config, captcha, retry_times, url_is_login, verified_left,
                   loginResult, error, fetchVars>>
    /\ UNCHANGED locVars

\* ------------------------------------------------------- fetch, after _login
\* GuardPass without the test of the result of _login.
GuardPassAlways ==
    /\ pc = "guard"
    /\ pc' = "user_ids"
    /\ UNCHANGED <<config, captcha, retry_times, url_is_login, verified_left,
                   loginResult, error, trace, fetchVars>>
    /\ UNCHANGED locVars

\* fetch, lines 297-309 and 317-318: _login returned True.
GuardPass ==
    /\ pc = "guard"
    /\ loginResult = "True"
    /\ pc' = "user_ids"
    /\ UNCHANGED <<config, captcha, retry_times, url_is_login, verified_left,
                   loginResult, error, trace, fetchVars>>
    /\ UNCHANGED locVars

\* fetch, lines 301-303 / 307-315: _login returned False (fetch raises
\* "login unsuccessed" itself) or raised; the except clause closes the browser
\* and returns.
GuardFail ==
    /\ pc = "guard"
    /\ loginResult \in {"False", "raised"}
    /\ browserOpen' = FALSE
    /\ fetchOutcome' = "returned"
    /\ pc' = "done"
    /\ UNCHANGED <<config, captcha, retry_times, url_is_login, verified_left,
                   loginResult, error, trace, user_id_list, userid_index, updates>>
    /\ UNCHANGED locVars

\* fetch, line 320 and _get_user_ids, lines 488-518: the list of user ids.
GetUserIds ==
    /\ pc = "user_ids"
    /\ user_id_list' \in 0..MaxUsers
    /\ userid_index' = 0
    /\ pc' = "users"
    /\ UNCHANGED <<config, captcha, retry_times, url_is_login, verified_left,
                   loginResult, error, trace, browserOpen, fetchOutcome, updates>>
    /\ UNCHANGED locVars

\* _get_user_ids, lines 519-523: an exception is logged, the page is closed and
\* the method returns None; fetch, line 322: len(None) raises TypeError outside
\* any try, so the exception leaves fetch and line 372 is not reached.
GetUserIdsFail ==
    /\ pc = "user_ids"
    /\ user_id_list' = -1
    /\ fetchOutcome' = "propagated"
    /\ pc' = "done"
    /\ UNCHANGED <<config, captcha, retry_times, url_is_login, verified_left,
                   loginResult, error, trace, browserOpen, userid_index, updates>>
    /\ UNCHANGED locVars

\* fetch, lines 326-361: one user id, data read and handed to the updater.
UserUpdate ==
    /\ pc = "users"
    /\ userid_index < user_id_list
    /\ updates' = updates + 1
    /\ userid_index' = userid_index + 1
    /\ UNCHANGED <<pc, config, captcha, retry_times, url_is_login, verified_left,
                   loginResult, error, trace, browserOpen, fetchOutcome, user_id_list>>
    /\ UNCHANGED locVars

\* fetch, lines 334-338 and 362-370: the user id is ignored, or a step of the
\* body raises; either way the loop continues with the next id.
UserSkip ==
    /\ pc = "users"
    /\ userid_index < user_id_list
    /\ userid_index' = userid_index + 1
    /\ UNCHANGED <<pc, config, captcha, retry_times, url_is_login, verified_left,
                   loginResult, error, trace, browserOpen, fetchOutcome, user_id_list,
                   updates>>
    /\ UNCHANGED locVars

\* fetch, line 372: browser.close() after the loop, and fetch returns.
FetchClose ==
    /\ pc = "users"
    /\ userid_index >= user_id_list
    /\ browserOpen' = FALSE
    /\ fetchOutcome' = "returned"
    /\ pc' = "done"
    /\ UNCHANGED <<config, captcha, retry_times, url_is_login, verified_left,
                   loginResult, error, trace, user_id_list, userid_index, updates>>
    /\ UNCHANGED locVars

Next ==
    \/ FetchLaunch
    \/ LoginOpen \/ LoginOpenRaise
    \/ PhoneLogin \/ PhoneLoginRaise
    \/ FillCredentials \/ FillCredentialsRaise
    \/ LoopNext \/ LoopExhausted
    \/ ClickTab \/ Snapshot \/ SnapshotRaise
    \/ Decode \/ DecodeRaise
    \/ Estimate \/ EstimateRaise
    \/ SlideNoBox \/ SlideBox \/ MouseMoveStart \/ MouseDown \/ MouseMoveTarget
    \/ MouseUp \/ SlideRaise
    \/ VerifyLeft \/ VerifyStillLogin
    \/ Retrigger \/ RetriggerRaise
    \/ GuardPass \/ GuardFail
    \/ GetUserIds \/ GetUserIdsFail
    \/ UserUpdate \/ UserSkip \/ FetchClose

Spec == Init /\ [][Next]_vars

\* fetch is a sequential program: a step that can be taken is taken (every
\* wait is a finite sleep, every collaborator call returns or raises).
FairSpec == Spec /\ WF_vars(Next)

\* ------------------------------------------------------ properties, _login
\* The steps of one captcha attempt that the claims count.
AttemptSteps == {"snapshot", "estimate", "drag", "verify_fail"}

\* _login is over.
LoginOver == loginResult # "none"

\* C1, the state part: never more than RETRY_TIMES_LIMIT snapshots, estimates,
\* drags or verifications; and once the password path is over without an
\* exception and without a verification that left the login URL, it has
\* returned False after exactly RETRY_TIMES_LIMIT of each.
C1_Counts ==
    /\ \A e \in AttemptSteps \cup {"verify_ok"} : Count(trace, e) <= RETRY_TIMES_LIMIT
    /\ (/\ RETRY_TIMES_LIMIT >= 1
        /\ ~phone_code
        /\ LoginOver
        /\ error = "none"
        /\ Count(trace, "verify_ok") = 0)
       => /\ loginResult = "False"
          /\ \A e \in AttemptSteps : Count(trace, e) = RETRY_TIMES_LIMIT

\* C1: for a budget N >= 1, when every verification finds the login URL, the
\* password path makes exactly N captcha attempts, no more and no fewer, and
\* then ends by returning False; and _login, once in its loop, does end.
C1_ExactlyNAttempts == []C1_Counts /\ ((pc = "loop") ~> LoginOver)

\* C1 witness: the largest budget was used up by failed verifications and
\* _login returned False.
C1_Witness ==
    /\ RETRY_TIMES_LIMIT = MaxRetry
    /\ loginResult = "False"
    /\ Count(trace, "verify_fail") = MaxRetry
    /\ Count(trace, "snapshot") = MaxRetry

\* C2: the first verification that finds the URL changed ends _login with
\* True at once, whatever budget is left: it is the last step of the trace, so
\* no snapshot, estimate or drag follows it.
C2_FirstSuccessEnds ==
    \A i \in DOMAIN trace :
        trace[i] = "verify_ok" =>
            /\ i = Len(trace)
            /\ loginResult = "True"
            /\ error = "none"
            /\ Count(trace, "verify_fail") = retry_times - 1
            /\ \A e \in {"snapshot", "estimate", "drag"} : Count(trace, e) = retry_times

\* C2 witness: success at the second attempt with budget left over.
C2_Witness ==
    /\ loginResult = "True"
    /\ verified_left
    /\ retry_times > 1
    /\ retry_times < RETRY_TIMES_LIMIT
    /\ pc = "done"

\* C3: on every path, _login returns True exactly when it was told at
\* verification that the page is no longer the login page.
C3_TrueIffVerified == LoginOver => (loginResult = "True" <=> verified_left)

\* C4: a decode failure or a failure of the distance model inside an attempt
\* stays inside the attempt: it does not leave _login as an exception, so the
\* loop can go on and the session is kept.
C4_AttemptLocalFailure ==
    (\E i \in DOMAIN trace : trace[i] \in {"decode_failed", "estimate_failed"})
        => loginResult # "raised"

\* C5: a credential field that cannot be filled does not abort the login: the
\* failure does not leave _login as an exception, another attempt follows.
C5_CredentialFailureRetried ==
    (\E i \in DOMAIN trace : trace[i] = "credentials_failed")
        => loginResult # "raised"

\* The budget is used up: RETRY_TIMES_LIMIT >= 1 verifications failed and the
\* loop has been left.
Exhausted ==
    /\ RETRY_TIMES_LIMIT >= 1
    /\ Count(trace, "verify_fail") = RETRY_TIMES_LIMIT
    /\ pc \notin {"retrigger", "loop"}

\* C6: exhaustion reaches the caller as a result, never as a fault: _login
\* returns False without raising, and fetch returns to its caller.
C6_ExhaustionIsResult ==
    Exhausted =>
        /\ loginResult = "False"
        /\ error = "none"
        /\ pc \in {"guard", "done"}
        /\ (pc = "done" => fetchOutcome = "returned" /\ ~browserOpen)

\* C6 witness: fetch has returned after the budget was used up, the last
\* re-trigger click having failed.
C6_Witness ==
    /\ Exhausted
    /\ pc = "done"
    /\ fetchOutcome = "returned"
    /\ trace[Len(trace)] = "retrigger_failed"

\* --------------------------------------------- properties, _sliding_track
\* The pointer events of a complete drag from the centre of b by d, with jitter j.
PointerPath(b, d, j) ==
    <<<<"move", start_x(b), start_y(b)>>, <<"down">>,
      <<"move", start_x(b) + d, start_y(b) + j>>, <<"up">>>>

IsPrefix(s, t) == Len(s) <= Len(t) /\ \A i \in 1..Len(s) : s[i] = t[i]

\* _sliding_track has just returned to _login.
SlideReturned == pc = "verify"

C12_RetriggerAndWait ==
    \A i \in DOMAIN trace :
        (trace[i] = "verify_fail" /\ \E k \in DOMAIN trace : k > i /\ trace[k] = "snapshot")
            => /\ i + 2 <= Len(trace)
               /\ trace[i + 1] = "retrigger"
               /\ trace[i + 2] = "wait"

\* _sliding_track has been called with the current estimate and the estimate
\* has not been replaced yet.
SlideCalled == pc \in {"mouse_start", "mouse_down", "mouse_target", "mouse_up", "verify"}

\* C13: the distance handed to _sliding_track is the raw estimate times 1.06,
\* rounded to a nearest integer (raw 120 gives 127), in every attempt and for
\* every configuration; the target of the move is the start plus that distance.
C13_CalibratedDistance ==
    SlideCalled =>
        /\ 100 * track_distance - 106 * distance \in -50..50
        /\ (distance = 120 => track_distance = 127)
        /\ (pc \in {"mouse_up", "verify"} /\ box # None) =>
              mouse[3][2] = start_x(box) + track_distance

\* C13 witness: in a later attempt a raw estimate of 120 was handed on as 127
\* and the drag was made.
C13_Witness ==
    /\ pc = "verify"
    /\ retry_times > 1
    /\ box # None
    /\ distance = 120
    /\ track_distance = 127

\* The drag of the current attempt is done and there was no bounding box.
DraggedNoBox ==
    /\ retry_times >= 1
    /\ Count(trace, "drag") = retry_times
    /\ box = None

\* C14: without a bounding box _sliding_track issues no pointer event and
\* raises nothing; the attempt goes on to its verification and counts against
\* the budget like any other.
C14_NoBoxNoEvents ==
    DraggedNoBox =>
        /\ mouse = <<>>
        /\ loginResult # "raised"
        /\ error = "none"
        /\ \/ pc = "verify"
           \/ Count(trace, "verify_fail") + Count(trace, "verify_ok") = retry_times
        /\ retry_times <= RETRY_TIMES_LIMIT
        /\ (loginResult = "False" => retry_times = RETRY_TIMES_LIMIT)

\* C14 witness: the budget of at least two attempts was used up, the last
\* attempt having had no bounding box, and fetch is over.
C14_Witness ==
    /\ DraggedNoBox
    /\ RETRY_TIMES_LIMIT >= 2
    /\ loginResult = "False"
    /\ Count(trace, "verify_fail") = RETRY_TIMES_LIMIT
    /\ pc = "done"

\* C15: user ids are read, billing pages visited and the updater called only
\* after _login returned True; when _login returned False or raised, fetch
\* closes the browser and returns with nothing extracted or reported.
C15_DataOnlyAfterLogin ==
    /\ (pc \in {"user_ids", "users"} \/ user_id_list # -1 \/ userid_index > 0
          \/ updates > 0)
         => loginResult = "True"
    /\ (loginResult \in {"False", "raised"} /\ pc \notin {"guard"})
         => /\ pc = "done"
            /\ ~browserOpen
            /\ fetchOutcome = "returned"
            /\ user_id_list = -1 /\ userid_index = 0 /\ updates = 0

\* C15 witness: every listed user id was reported after a login that succeeded
\* at verification, and fetch has returned.
C15_Witness ==
    /\ pc = "done"
    /\ verified_left
    /\ user_id_list = MaxUsers
    /\ updates = MaxUsers

\* C16: on every path after the launch, fetch has called browser.close() and
\* returned to its caller when it is over; no exception leaves it.
C16_AlwaysClosesAndReturns ==
    pc = "done" => fetchOutcome = "returned" /\ ~browserOpen

\* ------------------------------------------------ get_transparency_location
\* Buffers of shape (height, width, channel). alpha[y + 1][x + 1] is the fourth
\* sample of the pixel in row y, column x; a 3-channel buffer has none, and its
\* alpha field is not read.
Alphas == {0, 255}
IsImage(img) ==
    \E h \in 1..MaxHeight, w \in 1..MaxWidth :
        \/ \E a \in [1..h -> [1..w -> Alphas]] :
              img = [height |-> h, width |-> w, channel |-> 4, alpha |-> a]
        \/ img = [height |-> h, width |-> w, channel |-> 3,
                  alpha |-> [r \in 1..h |-> [c \in 1..w |-> 0]]]

\* Python truth value of None or of a tuple.
Truthy(v) == v # None

\* Lines 43-51: the inner loop over the pixels of row yy, from column x on.
\* st carries first_location, last_location and first_transparency.
RECURSIVE ScanPixels(_, _, _, _)
ScanPixels(rows, x, yy, st) ==
    IF x >= Len(rows) THEN st
    ELSE LET alpha == rows[x + 1]
             fresh == ~Truthy(st.first_location) \/ st.first_location[2] # yy
             st1 == IF alpha # 0 /\ fresh
                    THEN [st EXCEPT !.first_location = <<x, yy>>,
                                    !.first_transparency = Append(@, <<x, yy>>)]
                    ELSE st
             st2 == IF alpha # 0
                    THEN [st1 EXCEPT !.last_location = <<x, yy>>]
                    ELSE st1
         IN  ScanPixels(rows, x + 1, yy, st2)

Min(a, b) == IF a < b THEN a ELSE b

\* PairLoop with both comparisons of lines 65 and 67 turned around.
RECURSIVE PairLoopFlipped(_, _, _, _, _)
PairLoopFlipped(firsts, lasts, i, left, right) ==
    IF i > Min(Len(firsts), Len(lasts)) THEN <<left, right>>
    ELSE LET first == firsts[i]
             last == lasts[i]
             left1 == IF ~Truthy(left) THEN first ELSE left
             right1 == IF ~Truthy(right) THEN last ELSE right
             left2 == IF first[1] > left1[1] THEN first ELSE left1
             right2 == IF last[1] < right1[1] THEN last ELSE right1
         IN  PairLoopFlipped(firsts, lasts, i + 1, left2, right2)

\* Lines 58-68: the loop over zip(first_transparency, last_transparency), from
\* pair i on; zip stops at the shorter list.
RECURSIVE PairLoop(_, _, _, _, _)
PairLoop(firsts, lasts, i, left, right) ==
    IF i > Min(Len(firsts), Len(lasts)) THEN <<left, right>>
    ELSE LET first == firsts[i]
             last == lasts[i]
             left1 == IF ~Truthy(left) THEN first ELSE left
             right1 == IF ~Truthy(right) THEN last ELSE right
             left2 == IF first[1] < left1[1] THEN first ELSE left1
             right2 == IF last[1] > right1[1] THEN last ELSE right1
         IN  PairLoop(firsts, lasts, i + 1, left2, right2)

\* Corners with the x and y members of the points confused.
CornersSwapped(top, bottom, left, right) == <<left[2], top[1], right[2], bottom[1]>>

\* Lines 71-74: upper-left and lower-right corner, flattened.
Corners(top, bottom, left, right) == <<left[1], top[2], right[1], bottom[2]>>

\* Lines 36-41: unpack the shape, assert four channels, initialise.
LocEnter ==
    /\ lpc = "enter"
    /\ image.channel = 4
    /\ lpc' = "scan"
    /\ y' = 0
    /\ first_location' = None
    /\ last_location' = None
    /\ first_transparency' = <<>>
    /\ last_transparency' = <<>>
    /\ UNCHANGED <<image, location, raised>>
    /\ UNCHANGED loginVars

\* Line 37: the assertion fails.
LocAssertFail ==
    /\ lpc = "enter"
    /\ image.channel # 4
    /\ raised' = "AssertionError"
    /\ lpc' = "done"
    /\ UNCHANGED <<image, y, first_location, last_location, first_transparency,
                   last_transparency, location>>
    /\ UNCHANGED loginVars

\* Lines 42-53: one iteration of the outer loop, row y.
LocScanRow ==
    /\ lpc = "scan"
    /\ y < image.height
    /\ LET st == ScanPixels(image.alpha[y + 1], 0, y,
                            [first_location |-> first_location,
                             last_location |-> last_location,
                             first_transparency |-> first_transparency])
       IN  /\ first_location' = st.first_location
           /\ last_location' = st.last_location
           /\ first_transparency' = st.first_transparency
           /\ last_transparency' = IF Truthy(st.last_location)
                                    THEN Append(last_transparency, st.last_location)
                                    ELSE last_transparency
    /\ y' = y + 1
    /\ UNCHANGED <<lpc, image, location, raised>>
    /\ UNCHANGED loginVars

\* Lines 56-74: top, bottom, the zip loop, the corners; the tuple is returned.
LocPair ==
    /\ lpc = "scan"
    /\ y >= image.height
    /\ first_transparency # <<>>
    /\ LET top == first_transparency[1]
           bottom == first_transparency[Len(first_transparency)]
           lr == PairLoop(first_transparency, last_transparency, 1, None, None)
       IN  location' = Corners(top, bottom, lr[1], lr[2])
    /\ lpc' = "done"
    /\ UNCHANGED <<image, y, first_location, last_location, first_transparency,
                   last_transparency, raised>>
    /\ UNCHANGED loginVars

\* Line 56: first_transparency is empty, first_transparency[0] raises IndexError.
LocPairRaise ==
    /\ lpc = "scan"
    /\ y >= image.height
    /\ first_transparency = <<>>
    /\ raised' = "IndexError"
    /\ lpc' = "done"
    /\ UNCHANGED <<image, y, first_location, last_location, first_transparency,
                   last_transparency, location>>
    /\ UNCHANGED loginVars

\* A call of get_transparency_location(image) on any buffer within the bounds.
InitLocator ==
    /\ RETRY_TIMES_LIMIT = 0
    /\ phone_code = FALSE
    /\ LoginStart("idle")
    /\ lpc = "enter"
    /\ IsImage(image)
    /\ y = 0
    /\ first_location = None
    /\ last_location = None
    /\ first_transparency = <<>>
    /\ last_transparency = <<>>
    /\ location = None
    /\ raised = "none"

NextLocator == LocEnter \/ LocAssertFail \/ LocScanRow \/ LocPair \/ LocPairRaise

SpecLocator == InitLocator /\ [][NextLocator]_vars

\* --------------------------------------------------- properties, locator
\* Positions <<x, y>> of the pixels of a 4-channel buffer with non-zero alpha.
NonZero(img) ==
    {p \in (0..(img.width - 1)) \X (0..(img.height - 1)) :
        img.alpha[p[2] + 1][p[1] + 1] # 0}

SetMin(S) == CHOOSE m \in S : \A n \in S : m <= n
SetMax(S) == CHOOSE m \in S : \A n \in S : m >= n

\* The smallest rectangle enclosing the points of P.
Enclosing(P) ==
    <<SetMin({p[1] : p \in P}), SetMin({p[2] : p \in P}),
      SetMax({p[1] : p \in P}), SetMax({p[2] : p \in P})>>

\* The call is over, on a 4-channel buffer with some non-zero-alpha pixel.
LocatedSome == lpc = "done" /\ image.channel = 4 /\ NonZero(image) # {}

\* C8: for every 4-channel buffer with a non-zero-alpha pixel the returned box
\* is the smallest rectangle enclosing all non-zero-alpha pixels, right being
\* the largest x also when rows without such a pixel lie between rows with one.
C8_SmallestEnclosingBox ==
    LocatedSome => raised = "none" /\ location = Enclosing(NonZero(image))

\* C9: for every 4-channel buffer with a non-zero-alpha pixel the returned box
\* has left <= right, upper <= lower, and all four coordinates inside the buffer.
C9_BoxOrderedInBounds ==
    LocatedSome =>
        /\ raised = "none"
        /\ Len(location) = 4
        /\ location[1] <= location[3]
        /\ location[2] <= location[4]
        /\ 0 <= location[1] /\ location[3] < image.width
        /\ 0 <= location[2] /\ location[4] < image.height

\* C9 witness: a box was returned for a buffer whose rows with non-zero alpha
\* are separated by a row without any, and whose right edge is not the largest x.
C9_Witness ==
    /\ LocatedSome
    /\ Len(first_transparency) < Len(last_transparency)
    /\ Len(location) = 4
    /\ location[3] < Enclosing(NonZero(image))[3]

\* C10: when exactly one pixel, at (x, y), has non-zero alpha, the returned box
\* is (x, y, x, y), wherever the pixel lies.
C10_SinglePixelBox ==
    (LocatedSome /\ Cardinality(NonZero(image)) = 1) =>
        \A p \in NonZero(image) : location = <<p[1], p[2], p[1], p[2]>>

\* C10 witness: the only non-zero-alpha pixel of a buffer of the largest size is
\* at column 1 of the last row, and the box returned is that pixel.
C10_Witness ==
    /\ lpc = "done"
    /\ image.channel = 4
    /\ image.width = MaxWidth
    /\ image.height = MaxHeight
    /\ NonZero(image) = {<<1, MaxHeight - 1>>}
    /\ location = <<1, MaxHeight - 1, 1, MaxHeight - 1>>

\* C11: on a 4-channel buffer without any non-zero-alpha pixel the call fails
\* with the dedicated NoTransparentRegionError and returns no box.
C11_NoTransparentRegionError ==
    (lpc = "done" /\ image.channel = 4 /\ NonZero(image) = {})
        => raised = "NoTransparentRegionError" /\ location = None

====
